---- MODULE Spec2Model ----
(***************************************************************************)
(* Model of the datainspector service: the DataProfile profiling engine    *)
(* (inspector/services.py), the dataset store and the HTTP views           *)
(* (inspector/views.py) and the startup seed (inspector/apps.py).          *)
(*                                                                         *)
(* A stored file is a name (a sequence of characters) and a content.  A    *)
(* content is the text of a CSV file seen as a header and a grid of cell   *)
(* tokens, or bytes that pandas cannot read.  read_csv turns the tokens    *)
(* into typed cells column by column, as pandas.read_csv does.             *)
(*                                                                         *)
(* Floating-point results are modelled by exact rationals [num, den];      *)
(* quartiles and fences are kept as integers scaled by 4 and by 8.         *)
(***************************************************************************)
EXTENDS Integers, Sequences, FiniteSets, TLC

VARIABLES
  fs,       \* the files under MEDIA_ROOT: file name -> content
  booted,   \* whether the server process is up (ready() has run)
  profile,  \* the DataProfile of the latest profiling request and the frame
            \* it loaded; both are dropped when the next request begins
  resp      \* the outcome of the latest request

vars == <<fs, booted, profile, resp>>

(* ------------------------------ bounds --------------------------------- *)

MaxCols == 2

MaxCells == 4

MaxSample == 2

MaxFiles == 2

(* ------------------------------ helpers -------------------------------- *)

Min(a, b) == IF a <= b THEN a ELSE b

Abs(a) == IF a < 0 THEN -a ELSE a

RECURSIVE Gcd(_, _)
Gcd(a, b) == IF b = 0 THEN a ELSE Gcd(b, a % b)

\* A float result, as the exact rational num/den in lowest terms (den > 0).
Frac(num, den) ==
  LET g == Gcd(Abs(num), den)
  IN  [num |-> num \div g, den |-> den \div g]

RECURSIVE SumSeq(_)
SumSeq(s) == IF s = <<>> THEN 0 ELSE Head(s) + SumSeq(Tail(s))

RECURSIVE Insert(_, _)
Insert(x, s) ==
  IF s = <<>> THEN <<x>>
  ELSE IF x <= Head(s) THEN <<x>> \o s
  ELSE <<Head(s)>> \o Insert(x, Tail(s))

RECURSIVE Sorted(_)
Sorted(s) == IF s = <<>> THEN <<>> ELSE Insert(Head(s), Sorted(Tail(s)))

\* The indices 1..Len(s) that satisfy Keep, in increasing order.
RECURSIVE PickFrom(_, _, _)
PickFrom(i, n, keep) ==
  IF i > n THEN <<>>
  ELSE (IF i \in keep THEN <<i>> ELSE <<>>) \o PickFrom(i + 1, n, keep)

(* ------------------------------- cells --------------------------------- *)

NaN == [k |-> "nan", n |-> 0, s |-> ""]

Num(v) == [k |-> "num", n |-> v, s |-> ""]

Str(t) == [k |-> "str", n |-> 0, s |-> t]

\* Tokens pandas reads as missing (the empty field, and NA).
NaTokens == {"", "NA"}

IntTokens == {"1", "2", "3", "4", "5", "6", "7", "8", "9", "100"}

FloatTokens == {"1.0"}

NumVal(tok) ==
  CASE tok = "1" -> 1 [] tok = "1.0" -> 1 [] tok = "2" -> 2 [] tok = "3" -> 3
    [] tok = "4" -> 4 [] tok = "5" -> 5 [] tok = "6" -> 6 [] tok = "7" -> 7
    [] tok = "8" -> 8 [] tok = "9" -> 9 [] tok = "100" -> 100

(* ------------------------------ contents -------------------------------- *)

\* The text of a CSV file: a header line and rows of cell tokens.
Csv(header, rows) == [kind |-> "csv", header |-> header, rows |-> rows]

\* A file of zero bytes (pandas: EmptyDataError).
EmptyFile == [kind |-> "empty", header |-> <<>>, rows |-> <<>>]

\* Bytes that are no delimited text (pandas: UnicodeDecodeError, ParserError).
Garbage == [kind |-> "garbage", header |-> <<>>, rows |-> <<>>]

(* ----------------------- pandas.read_csv ------------------------------- *)

LoadError == [ok |-> FALSE, nrows |-> 0, cols |-> <<>>]

\* The storage type pandas infers for a column from its tokens.
ColDtype(toks) ==
  LET present == {i \in 1..Len(toks) : toks[i] \notin NaTokens}
  IN  IF Len(toks) = 0 THEN "object"
      ELSE IF \E i \in present : toks[i] \notin IntTokens \cup FloatTokens
        THEN "object"
      ELSE IF present = 1..Len(toks) /\ \A i \in present : toks[i] \in IntTokens
        THEN "int64"
      ELSE "float64"

ParseCell(tok, dtype) ==
  IF tok \in NaTokens THEN NaN
  ELSE IF dtype = "object" THEN Str(tok)
  ELSE Num(NumVal(tok))

\* The data lines read_csv keeps: it skips the lines that are wholly empty,
\* which a line of one empty field is (skip_blank_lines defaults to True).
DataLines(content) ==
  SelectSeq(content.rows, LAMBDA row : ~(Len(row) = 1 /\ row[1] = ""))

read_csv(content) ==
  IF content.kind # "csv" \/ Len(content.header) = 0 THEN LoadError
  ELSE
    LET lines == DataLines(content)
        nrows == Len(lines)
        col(c) ==
          LET toks == [r \in 1..nrows |-> lines[r][c]]
              dtype == ColDtype(toks)
          IN  [name |-> content.header[c], dtype |-> dtype,
               values |-> [r \in 1..nrows |-> ParseCell(toks[r], dtype)]]
    IN  [ok |-> TRUE, nrows |-> nrows,
         cols |-> [c \in 1..Len(content.header) |-> col(c)]]

(* ---------------------------- file names -------------------------------- *)

\* str.startswith
startswith(fname, prefix) ==
  Len(prefix) <= Len(fname) /\ SubSeq(fname, 1, Len(prefix)) = prefix

\* str.partition('.')[0]: the text before the first dot (all of it if none).
partition_dot(fname) ==
  LET dots == {i \in 1..Len(fname) : fname[i] = "."}
  IN  IF dots = {} THEN fname
      ELSE SubSeq(fname, 1, (CHOOSE i \in dots : \A j \in dots : i <= j) - 1)

\* os.path.splitext(name)[1]: from the last dot on, unless only dots lead it.
splitext_ext(name) ==
  LET dots == {i \in 1..Len(name) : name[i] = "."}
      last == CHOOSE i \in dots : \A j \in dots : j <= i
  IN  IF dots = {} THEN <<>>
      ELSE IF \A j \in 1..(last - 1) : name[j] = "." THEN <<>>
      ELSE SubSeq(name, last, Len(name))

DotCsv == <<".", "c", "s", "v">>

\* os.listdir(MEDIA_ROOT): the stored names, in an order the system picks.
listdir(names) ==
  {l \in [1..Cardinality(names) -> names] :
     \A i, j \in DOMAIN l : i # j => l[i] # l[j]}

NotFound == [found |-> FALSE, path |-> <<>>]

\* The first name of the listing that starts with dataset_id, or Http404.
RECURSIVE first_match(_, _)
first_match(dataset_id, listing) ==
  IF listing = <<>> THEN NotFound
  ELSE IF startswith(Head(listing), dataset_id)
    THEN [found |-> TRUE, path |-> Head(listing)]
  ELSE first_match(dataset_id, Tail(listing))

\* What _get_dataset_path(dataset_id) may return on a directory holding
\* `names`: the first match of one of the orders os.listdir may list them in.
_get_dataset_path(dataset_id, names) ==
  {first_match(dataset_id, listing) : listing \in listdir(names)}

(* --------------------------- DataProfile -------------------------------- *)

\* What a method returns, or the exception that leaves it.
Ok(body) == [status |-> "ok", body |-> body]

\* No report at all.
NoBody == [none |-> TRUE]

Raised == [status |-> "LoadError", body |-> NoBody]

\* A loader that keeps the frame of the previous request for the same path.
_load_dataframe_cached(file_path) ==
  IF profile.file_path = file_path /\ profile.df.ok THEN profile.df
  ELSE IF file_path \in DOMAIN fs THEN read_csv(fs[file_path])
  ELSE LoadError

_load_dataframe(file_path) ==
  IF file_path \in DOMAIN fs THEN read_csv(fs[file_path]) ELSE LoadError

\* profile = DataProfile(file_path), then df = profile._load_dataframe().
DataProfile(file_path) ==
  [file_path |-> file_path, df |-> _load_dataframe(file_path)]

NoProfile == [file_path |-> <<>>, df |-> LoadError]

shape(df) == <<df.nrows, Len(df.cols)>>

Row(df, r) == [c \in 1..Len(df.cols) |-> df.cols[c].values[r]]

\* DataFrame.isna().sum(): the missing cells of each column.
isna_sum(df) ==
  [c \in 1..Len(df.cols) |->
     Cardinality({r \in 1..df.nrows : df.cols[c].values[r] = NaN})]

\* duplicated() that ignores keep and marks all but the first occurrence.
duplicated_keep_first(df, keep) ==
  {r \in 1..df.nrows : \E q \in 1..(r - 1) : Row(df, q) = Row(df, r)}

\* duplicated() that ignores keep and marks every occurrence.
duplicated_keep_false(df, keep) ==
  {r \in 1..df.nrows :
     \E q \in 1..df.nrows : q # r /\ Row(df, q) = Row(df, r)}

\* DataFrame.duplicated(keep): the rows marked, as a set of row numbers.
duplicated(df, keep) ==
  IF keep = "first"
    THEN {r \in 1..df.nrows : \E q \in 1..(r - 1) : Row(df, q) = Row(df, r)}
    ELSE {r \in 1..df.nrows :
            \E q \in 1..df.nrows : q # r /\ Row(df, q) = Row(df, r)}

StrLen(t) ==
  CASE t = "" -> 0 [] t = "1.0" -> 3 [] t = "100" -> 3 [] OTHER -> 1

\* DataFrame.memory_usage(deep=True).sum() on CPython 3.11, 64 bit: the
\* RangeIndex (a range object of 48 bytes and its start, stop and step, ints
\* of 28 bytes each, the int 0 included), 8 bytes per numeric cell, and per
\* object cell a pointer and the object (a str or the float nan).
memory_usage(df) ==
  LET index == 48 + 28 + 28 + 28
      cell(c, r) ==
        LET v == df.cols[c].values[r]
        IN  IF df.cols[c].dtype # "object" THEN 8
            ELSE IF v = NaN THEN 8 + 24
            ELSE 8 + 49 + StrLen(v.s)
      column(c) == SumSeq([r \in 1..df.nrows |-> cell(c, r)])
  IN  index + SumSeq([c \in 1..Len(df.cols) |-> column(c)])

\* The float nan: what numpy gives for a division by zero.
NaNFloat == [num |-> 0, den |-> 0]

\* a / b * 100 on numpy numbers, b # 0 or not.
pct_of(a, b) == IF b = 0 THEN NaNFloat ELSE Frac(a * 100, b)

\* The largest per-column count instead of their sum.
missing_total_max(df) ==
  LET miss == isna_sum(df)
  IN  IF Len(miss) = 0 THEN 0
      ELSE CHOOSE m \in {miss[c] : c \in 1..Len(miss)} :
             \A c \in 1..Len(miss) : miss[c] <= m

\* df.isna().sum().sum()
missing_total_of(df) == SumSeq(isna_sum(df))

\* The percentage without the guard on an empty table.
summary_missing_pct_unguarded(missing_total, rows, cols) ==
  pct_of(missing_total, rows * cols)

\* (missing_total / (rows * cols) * 100) if rows and cols else 0
summary_missing_pct(missing_total, rows, cols) ==
  IF rows # 0 /\ cols # 0 THEN pct_of(missing_total, rows * cols)
  ELSE Frac(0, 1)

summary(file_path) ==
  LET df == _load_dataframe(file_path)
      rows == shape(df)[1]
      cols == shape(df)[2]
      missing_total == missing_total_of(df)
      missing_pct == summary_missing_pct(missing_total, rows, cols)
  IN  IF ~df.ok THEN Raised
      ELSE Ok([rows |-> rows, columns |-> cols,
               memory_bytes |-> memory_usage(df),
               missing_total |-> missing_total,
               missing_pct |-> missing_pct,
               duplicate_rows |-> Cardinality(duplicated(df, "first"))])

missing(file_path) ==
  LET df == _load_dataframe(file_path)
      miss == isna_sum(df)
  IN  IF ~df.ok THEN Raised
      ELSE Ok([missing_by_column |->
                 [c \in 1..Len(df.cols) |->
                    [column |-> df.cols[c].name,
                     missing |-> miss[c],
                     missing_pct |->
                       IF df.nrows # 0 THEN pct_of(miss[c], df.nrows)
                       ELSE Frac(0, 1)]]])

\* pandas.api.types.infer_dtype(column, skipna=True).
infer_dtype(column) ==
  CASE column.dtype = "int64" -> "integer"
    [] column.dtype = "float64" -> "floating"
    [] OTHER ->
         IF \A r \in 1..Len(column.values) : column.values[r] = NaN
           THEN "empty" ELSE "string"

dtypes(file_path) ==
  LET df == _load_dataframe(file_path)
  IN  IF ~df.ok THEN Raised
      ELSE Ok([dtypes |->
                 [c \in 1..Len(df.cols) |->
                    [column |-> df.cols[c].name,
                     dtype |-> df.cols[c].dtype,
                     inferred |-> infer_dtype(df.cols[c])]]])

\* Series.nunique() with the default dropna=True.
series_nunique_dropna(column) ==
  Cardinality({column.values[r] : r \in 1..Len(column.values)} \ {NaN})

\* Series.nunique(dropna=False): the distinct cells, nan being one of them.
series_nunique(column) ==
  Cardinality({column.values[r] : r \in 1..Len(column.values)})

nunique(file_path) ==
  LET df == _load_dataframe(file_path)
  IN  IF ~df.ok THEN Raised
      ELSE Ok([nunique |->
                 [c \in 1..Len(df.cols) |->
                    [column |-> df.cols[c].name,
                     unique |-> series_nunique(df.cols[c])]]])

\* DataFrame.select_dtypes(include="number"): the numeric columns, in order.
select_dtypes_number(df) ==
  PickFrom(1, Len(df.cols),
           {c \in 1..Len(df.cols) : df.cols[c].dtype \in {"int64", "float64"}})

\* Series.dropna() of a numeric column: its numbers, in row order.
dropna(column) ==
  LET keep == {r \in 1..Len(column.values) : column.values[r] # NaN}
      at == PickFrom(1, Len(column.values), keep)
  IN  [i \in 1..Len(at) |-> column.values[at[i]].n]

\* Series.quantile(k/4) with linear interpolation, times 4: the value at
\* position (n-1)*k/4 of the sorted series (positions from 0).
quantile_x4(series, k) ==
  LET s == Sorted(series)
      pos4 == (Len(s) - 1) * k
      lo == pos4 \div 4
      fr == pos4 % 4
  IN  IF fr = 0 THEN 4 * s[lo + 1]
      ELSE 4 * s[lo + 1] + fr * (s[lo + 2] - s[lo + 1])

\* The mask with the fences themselves counted as outliers.
outlier_mask_inclusive(series) ==
  LET q1 == quantile_x4(series, 1)
      q3 == quantile_x4(series, 3)
      iqr == q3 - q1
  IN  {i \in 1..Len(series) :
         8 * series[i] <= 2 * q1 - 3 * iqr \/ 8 * series[i] >= 2 * q3 + 3 * iqr}

\* The rows of the mask (series < lower) | (series > upper); the fences are
\* compared times 8: lower = q1 - 1.5*iqr, upper = q3 + 1.5*iqr.
outlier_mask(series) ==
  LET q1 == quantile_x4(series, 1)
      q3 == quantile_x4(series, 3)
      iqr == q3 - q1
      lower8 == 2 * q1 - 3 * iqr
      upper8 == 2 * q3 + 3 * iqr
  IN  {i \in 1..Len(series) :
         8 * series[i] < lower8 \/ 8 * series[i] > upper8}

Sign(t) == IF t > 0 THEN 1 ELSE IF t < 0 THEN -1 ELSE 0

RECURSIVE Pow2(_)
Pow2(k) == IF k = 0 THEN 1 ELSE 2 * Pow2(k - 1)

\* base^e modulo m.
RECURSIVE PowMod(_, _, _)
PowMod(base, e, m) ==
  IF e = 0 THEN 1 % m ELSE (base * PowMod(base, e - 1, m)) % m

\* The sign of x - y * 2^k, for k of either sign.
CmpPow2(x, y, k) ==
  IF k < 0 THEN Sign(x * Pow2(-k) - y) ELSE Sign(x - y * Pow2(k))

\* A float64 times 100: the 53-bit significand, known modulo 2048 as m, times
\* 25 and cut by D (16 or 32) to 53 bits again, to nearest, ties to even.
\* err is D * (the new significand) - 25 * (the old one); mant is the new
\* significand modulo 64.
MulRound(m, D) ==
  LET x == (25 * m) % (64 * D)
      r == x % D
      y0 == x \div D
      up == 2 * r > D \/ (2 * r = D /\ y0 % 2 = 1)
  IN  [err |-> IF up THEN D - r ELSE -r,
       mant |-> (y0 + (IF up THEN 1 ELSE 0)) % 64]

\* For a/b in lowest terms with 0 < a < b, b = 32 * f and f a power of 5
\* above 1 (the ratios count/len whose percentage ends in an exact 5 at the
\* third decimal and that float64 cannot hold): the sign of
\* ((a / b) * 100) * 100, computed in float64 with a rounding at each of the
\* three operations, minus the exact 10000 * a / b. The significands are
\* followed modulo a power of two and the three rounding errors exactly.
TieSide(a, b) ==
  LET f == b \div 32
      L == CHOOSE l \in -10..4 :
             CmpPow2(a, f, l) >= 0 /\ CmpPow2(a, f, l + 1) < 0
      r == ((a % f) * PowMod(2, 52 - L, f)) % f
      e1 == IF 2 * r > f THEN f - r ELSE -r
      finv == CHOOSE x \in 0..2047 : (f * x) % 2048 = 1
      m1 == ((e1 % 2048) * finv) % 2048
      c1 == CmpPow2(25 * a, f, 5 + L)
      D1 == IF c1 < 0 \/ (c1 = 0 /\ e1 < 0) THEN 16 ELSE 32
      s1 == MulRound(m1, D1)
      c2 == CmpPow2(625 * a, f * D1, 5 + L)
      D2 == IF c2 < 0 \/ (c2 = 0 /\ 25 * e1 + f * s1.err < 0) THEN 16 ELSE 32
      s2 == MulRound(s1.mant, D2)
  IN  Sign(625 * e1 + 25 * f * s1.err + f * D1 * s2.err)

\* round(pct, 2) of the numpy float64 pct = (count / n) * 100, 0 <= count <= n,
\* n > 0: numpy rounds a float64 to 2 decimals as rint(pct * 100) / 100, rint
\* taking ties to even. The nearest hundredth of the exact 100 * count / n,
\* except where that is half-way between two hundredths: there the float64
\* arithmetic decides the side (23 of 160 gives 14.37, 1 of 32 gives 3.12).
round2(count, n) ==
  LET q == (count * 10000) \div n
      r == (count * 10000) % n
      g == Gcd(count, n)
      side == IF (n \div g) % 5 # 0 THEN 0 ELSE TieSide(count \div g, n \div g)
      h == IF 2 * r > n THEN q + 1
           ELSE IF 2 * r < n THEN q
           ELSE IF side > 0 THEN q + 1
           ELSE IF side < 0 THEN q
           ELSE q + (q % 2)
  IN  Frac(h, 100)

outlier_table(file_path) ==
  LET df == _load_dataframe(file_path)
      numeric == select_dtypes_number(df)
      kept == PickFrom(1, Len(numeric),
                {i \in 1..Len(numeric) : Len(dropna(df.cols[numeric[i]])) # 0})
      entry(c) ==
        LET series == dropna(df.cols[c])
            outliers_count == Cardinality(outlier_mask(series))
        IN  [column |-> df.cols[c].name,
             outliers |-> outliers_count,
             pct |-> round2(outliers_count, Len(series))]
  IN  IF ~df.ok THEN Raised
      ELSE Ok([outliers |-> [i \in 1..Len(kept) |-> entry(numeric[kept[i]])]])

\* DataFrame.head(n) of the rows `at`, for n >= 0.
head(at, n) == SubSeq(at, 1, Min(n, Len(at)))

\* One row as to_dict(orient='records') gives it: column name -> value.
to_record(df, r) ==
  [name \in {df.cols[c].name : c \in 1..Len(df.cols)} |->
     LET c == CHOOSE c \in 1..Len(df.cols) : df.cols[c].name = name
     IN  df.cols[c].values[r]]

duplicates(file_path, sample_size) ==
  LET df == _load_dataframe(file_path)
      duplicated_mask == duplicated(df, "none")
      duplicates_df == PickFrom(1, df.nrows, duplicated_mask)
      sample == head(duplicates_df, sample_size)
  IN  IF ~df.ok THEN Raised
      ELSE Ok([count |-> Len(duplicates_df),
               duplicates_sample |->
                 [i \in 1..Len(sample) |-> to_record(df, sample[i])]])

\* columns() that answers an empty list when the file does not load.
columns_default(file_path) ==
  LET df == _load_dataframe(file_path)
  IN  Ok([columns |-> [c \in 1..Len(df.cols) |-> df.cols[c].name]])

columns(file_path) ==
  LET df == _load_dataframe(file_path)
  IN  IF ~df.ok THEN Raised
      ELSE Ok([columns |-> [c \in 1..Len(df.cols) |-> df.cols[c].name]])

(* ------------------------------ inputs ---------------------------------- *)

HexChars == {"a", "b"}

\* uuid.uuid4().hex, shortened from 32 hexadecimal characters to two.
Ids == {<<x, y>> : x, y \in HexChars}

\* The identifiers a request may carry: full ids and their proper prefixes.
RequestIds == Ids \cup {<<x>> : x \in HexChars}

UploadNames == {<<"d">>, <<"d", ".", "t">>}

SampleA == Csv(<<"x">>, <<<<"1">>, <<"1">>>>)

SampleB == Csv(<<"x", "y">>, <<<<"1", "a">>, <<"", "a">>>>)

\* The file at settings.DEFAULT_DATASET_PATH.
DefaultDataset == SampleA

UploadContents == {SampleB, Garbage}

SampleC == Csv(<<"y", "x">>, <<<<"2", "">>>>)

\* What a file is replaced by from outside: never what an upload carries.
ReplaceContents == {SampleC}

Tokens == {"", "NA", "1", "1.0", "2", "a"}

ColNames == <<"x", "y", "z", "w">>

\* The shapes <<columns, rows>> of the tables of at most MaxCells cells.
Shapes ==
  {sh \in (1..MaxCols) \X (0..MaxCells) : sh[1] * sh[2] <= MaxCells}

Grids(c, r) == [1..r -> [1..c -> Tokens]]

\* The column [1,2,3,4,5,6,7,8,9,100].
TenToHundred ==
  Csv(<<"x">>, <<<<"1">>, <<"2">>, <<"3">>, <<"4">>, <<"5">>, <<"6">>,
                 <<"7">>, <<"8">>, <<"9">>, <<"100">>>>)

\* The column [1, null, null, 2].
OneNullNullTwo == Csv(<<"x">>, <<<<"1">>, <<"NA">>, <<"NA">>, <<"2">>>>)

\* Four equal numbers and a smaller one: the four sit on both fences.
FourTwosAndAOne ==
  Csv(<<"x">>, <<<<"2">>, <<"2">>, <<"2">>, <<"2">>, <<"1">>>>)

\* Rows A, A, B over two columns; the two A rows differ only in how the
\* number is written.
RowsAAB ==
  Csv(<<"x", "y">>, <<<<"1", "a">>, <<"1.0", "a">>, <<"2", "">>>>)

\* Rows B, A, A, A, C, C.
RowsBAAACC ==
  Csv(<<"x">>, <<<<"a">>, <<"1">>, <<"1">>, <<"1">>, <<"NA">>, <<"NA">>>>)

ExampleContents ==
  {TenToHundred, OneNullNullTwo, FourTwosAndAOne, RowsAAB, RowsBAAACC}

ProfileContents ==
  UNION {{Csv(SubSeq(ColNames, 1, sh[1]), g) : g \in Grids(sh[1], sh[2])} :
           sh \in Shapes}
    \cup ExampleContents \cup {EmptyFile, Garbage}

\* The path the engine is called on directly.
ProfilePath == <<"d", ".", "c", "s", "v">>

SampleSizes == 0..MaxSample

\* duplicates(self, sample_size: int = 5)
DefaultSampleSize == 5

(* ----------------------------- responses -------------------------------- *)

NoResp ==
  [kind |-> "none", op |-> "", req |-> <<>>, path |-> <<>>, status |-> "",
   body |-> NoBody]

CallResp(op, file_path, sample_size, result) ==
  [kind |-> "call", op |-> op,
   req |-> [file_path |-> file_path, sample_size |-> sample_size],
   path |-> file_path, status |-> result.status, body |-> result.body]

ViewResp(op, dataset_id, found, result) ==
  IF found.found
    THEN [kind |-> "view", op |-> op, req |-> dataset_id, path |-> found.path,
          status |-> result.status, body |-> result.body]
    ELSE [kind |-> "view", op |-> op, req |-> dataset_id, path |-> <<>>,
          status |-> "Http404", body |-> NoBody]

(* ------------------- DataProfile called on a path ----------------------- *)

call_summary ==
  /\ resp' = CallResp("summary", ProfilePath, 0, summary(ProfilePath))
  /\ profile' = DataProfile(ProfilePath)
  /\ UNCHANGED <<fs, booted>>

call_missing ==
  /\ resp' = CallResp("missing", ProfilePath, 0, missing(ProfilePath))
  /\ profile' = DataProfile(ProfilePath)
  /\ UNCHANGED <<fs, booted>>

call_dtypes ==
  /\ resp' = CallResp("dtypes", ProfilePath, 0, dtypes(ProfilePath))
  /\ profile' = DataProfile(ProfilePath)
  /\ UNCHANGED <<fs, booted>>

call_nunique ==
  /\ resp' = CallResp("nunique", ProfilePath, 0, nunique(ProfilePath))
  /\ profile' = DataProfile(ProfilePath)
  /\ UNCHANGED <<fs, booted>>

call_outlier_table ==
  /\ resp' = CallResp("outlier_table", ProfilePath, 0, outlier_table(ProfilePath))
  /\ profile' = DataProfile(ProfilePath)
  /\ UNCHANGED <<fs, booted>>

call_columns ==
  /\ resp' = CallResp("columns", ProfilePath, 0, columns(ProfilePath))
  /\ profile' = DataProfile(ProfilePath)
  /\ UNCHANGED <<fs, booted>>

call_duplicates ==
  \E sample_size \in SampleSizes :
    /\ resp' = CallResp("duplicates", ProfilePath, sample_size,
                        duplicates(ProfilePath, sample_size))
    /\ profile' = DataProfile(ProfilePath)
    /\ UNCHANGED <<fs, booted>>

InitProfile ==
  /\ booted = TRUE
  /\ profile = NoProfile
  /\ resp = NoResp
  /\ fs \in {<<>>} \cup {[n \in {ProfilePath} |-> c] : c \in ProfileContents}

NextProfile ==
  \/ call_summary
  \/ call_missing
  \/ call_dtypes
  \/ call_nunique
  \/ call_outlier_table
  \/ call_duplicates
  \/ call_columns

SpecProfile == InitProfile /\ [][NextProfile]_vars

(* --------------------------- the service -------------------------------- *)

\* The store with one file written (open(file_path, 'wb+') and the chunks).
write_file(name, content) ==
  [n \in DOMAIN fs \cup {name} |-> IF n = name THEN content ELSE fs[n]]

\* An id generator that may hand out an id again.
AnyIds == Ids

\* The ids uuid4 has not handed out: every id handed out names a stored file.
FreshIds == {id \in Ids : \A n \in DOMAIN fs : ~startswith(n, id)}

\* InspectorConfig.ready: seed the store with the default dataset if empty.
ready ==
  /\ ~booted
  /\ booted' = TRUE
  /\ resp' = NoResp
  /\ profile' = NoProfile
  /\ IF DOMAIN fs # {}
       THEN fs' = fs
       ELSE \E dataset_id \in FreshIds :
              fs' = write_file(dataset_id \o DotCsv, DefaultDataset)

\* The server process stops; the store stays on disk.
shutdown ==
  /\ booted
  /\ booted' = FALSE
  /\ resp' = NoResp
  /\ profile' = NoProfile
  /\ UNCHANGED fs

\* A file of the store is replaced from outside the service.
replace_file ==
  \E name \in DOMAIN fs, content \in ReplaceContents :
    /\ content # fs[name]
    /\ fs' = [fs EXCEPT ![name] = content]
    /\ resp' = [NoResp EXCEPT !.kind = "write", !.path = name]
    /\ UNCHANGED <<booted, profile>>

\* DatasetList.get
list_datasets ==
  /\ booted
  /\ \E listing \in listdir(DOMAIN fs) :
       resp' = [kind |-> "list", op |-> "get", req |-> <<>>, path |-> <<>>,
                status |-> "200",
                body |-> [datasets |->
                            [i \in 1..Len(listing) |->
                               [id |-> partition_dot(listing[i]),
                                file_name |-> listing[i]]]]]
  /\ profile' = NoProfile
  /\ UNCHANGED <<fs, booted>>

\* DatasetList.post
post ==
  /\ booted
  /\ \E has_file \in BOOLEAN, name \in UploadNames, content \in UploadContents :
       IF ~has_file
         THEN /\ resp' = [kind |-> "upload", op |-> "post",
                          req |-> [has_file |-> FALSE, name |-> <<>>,
                                   content |-> EmptyFile],
                          path |-> <<>>, status |-> "400",
                          body |-> [detail |-> "No file provided"]]
              /\ UNCHANGED fs
         ELSE /\ Cardinality(DOMAIN fs) < MaxFiles
              /\ \E dataset_id \in FreshIds :
                   LET ext == IF splitext_ext(name) # <<>>
                                THEN splitext_ext(name) ELSE DotCsv
                       file_name == dataset_id \o ext
                   IN  /\ fs' = write_file(file_name, content)
                       /\ resp' = [kind |-> "upload", op |-> "post",
                                   req |-> [has_file |-> TRUE, name |-> name,
                                            content |-> content],
                                   path |-> file_name, status |-> "201",
                                   body |-> [id |-> dataset_id,
                                             file_name |-> name]]
  /\ profile' = NoProfile
  /\ UNCHANGED booted

SummaryView ==
  /\ booted
  /\ \E dataset_id \in RequestIds :
       \E found \in _get_dataset_path(dataset_id, DOMAIN fs) :
           /\ resp' = ViewResp("summary", dataset_id, found,
                              summary(found.path))
           /\ profile' = IF found.found THEN DataProfile(found.path)
                                        ELSE NoProfile
  /\ UNCHANGED <<fs, booted>>

OutlierView ==
  /\ booted
  /\ \E dataset_id \in RequestIds :
       \E found \in _get_dataset_path(dataset_id, DOMAIN fs) :
           /\ resp' = ViewResp("outlier_table", dataset_id, found,
                              outlier_table(found.path))
           /\ profile' = IF found.found THEN DataProfile(found.path)
                                        ELSE NoProfile
  /\ UNCHANGED <<fs, booted>>

MissingView ==
  /\ booted
  /\ \E dataset_id \in RequestIds :
       \E found \in _get_dataset_path(dataset_id, DOMAIN fs) :
           /\ resp' = ViewResp("missing", dataset_id, found,
                              missing(found.path))
           /\ profile' = IF found.found THEN DataProfile(found.path)
                                        ELSE NoProfile
  /\ UNCHANGED <<fs, booted>>

DtypesView ==
  /\ booted
  /\ \E dataset_id \in RequestIds :
       \E found \in _get_dataset_path(dataset_id, DOMAIN fs) :
           /\ resp' = ViewResp("dtypes", dataset_id, found,
                              dtypes(found.path))
           /\ profile' = IF found.found THEN DataProfile(found.path)
                                        ELSE NoProfile
  /\ UNCHANGED <<fs, booted>>

NuniqueView ==
  /\ booted
  /\ \E dataset_id \in RequestIds :
       \E found \in _get_dataset_path(dataset_id, DOMAIN fs) :
           /\ resp' = ViewResp("nunique", dataset_id, found,
                              nunique(found.path))
           /\ profile' = IF found.found THEN DataProfile(found.path)
                                        ELSE NoProfile
  /\ UNCHANGED <<fs, booted>>

DuplicatesView ==
  /\ booted
  /\ \E dataset_id \in RequestIds :
       \E found \in _get_dataset_path(dataset_id, DOMAIN fs) :
           /\ resp' = ViewResp("duplicates", dataset_id, found,
                              duplicates(found.path, DefaultSampleSize))
           /\ profile' = IF found.found THEN DataProfile(found.path)
                                        ELSE NoProfile
  /\ UNCHANGED <<fs, booted>>

ColumnsView ==
  /\ booted
  /\ \E dataset_id \in RequestIds :
       \E found \in _get_dataset_path(dataset_id, DOMAIN fs) :
           /\ resp' = ViewResp("columns", dataset_id, found,
                              columns(found.path))
           /\ profile' = IF found.found THEN DataProfile(found.path)
                                        ELSE NoProfile
  /\ UNCHANGED <<fs, booted>>

Init ==
  /\ fs = <<>>
  /\ booted = FALSE
  /\ profile = NoProfile
  /\ resp = NoResp

Next ==
  \/ ready
  \/ shutdown
  \/ replace_file
  \/ list_datasets
  \/ post
  \/ SummaryView
  \/ OutlierView
  \/ MissingView
  \/ DtypesView
  \/ NuniqueView
  \/ DuplicatesView
  \/ ColumnsView

Spec == Init /\ [][Next]_vars

(* ===================== properties of the engine ========================= *)

\* The response `r` is what DataProfile.<op> returned without raising.
CallOk(r, op) == r.kind = "call" /\ r.op = op /\ r.status = "ok"

\* The table the stored file parses to.
TableAt(store, path) == read_csv(store[path])

SameRow(df, q, r) ==
  \A c \in 1..Len(df.cols) : df.cols[c].values[q] = df.cols[c].values[r]

\* The rows that have an identical row elsewhere in the table.
Repeated(df) ==
  {r \in 1..df.nrows : \E q \in 1..df.nrows : q # r /\ SameRow(df, q, r)}

\* The i-th smallest element of a set of row numbers.
NthOf(rows, i) == CHOOSE r \in rows : Cardinality({q \in rows : q < r}) = i - 1

\* C1: duplicates(sample_size) reports as count the number of rows that have
\* an identical row elsewhere in the table, and as duplicates_sample the first
\* min(sample_size, count) of those rows in row order, each as a mapping from
\* column name to value; sample_size = 0 gives an empty sample.
C1_DuplicatesReport ==
  CallOk(resp, "duplicates") =>
    LET df == TableAt(fs, resp.path)
        rep == Repeated(df)
        k == Min(resp.req.sample_size, Cardinality(rep))
        sample == resp.body.duplicates_sample
    IN  /\ resp.body.count = Cardinality(rep)
        /\ Len(sample) = k
        /\ resp.req.sample_size = 0 => sample = <<>>
        /\ \A i \in 1..k :
             /\ DOMAIN sample[i] = {df.cols[c].name : c \in 1..Len(df.cols)}
             /\ \A c \in 1..Len(df.cols) :
                  sample[i][df.cols[c].name] = df.cols[c].values[NthOf(rep, i)]

\* A sample that is cut short and does not start at the first row.
C1_Witness ==
  /\ CallOk(resp, "duplicates")
  /\ resp.req.sample_size >= 1
  /\ resp.body.count > resp.req.sample_size
  /\ Len(resp.body.duplicates_sample) = resp.req.sample_size
  /\ 1 \notin Repeated(TableAt(fs, resp.path))

\* The non-missing numbers of column c, in row order.
Present(df, c) ==
  LET at == {r \in 1..df.nrows : df.cols[c].values[r].k = "num"}
  IN  [i \in 1..Cardinality(at) |-> df.cols[c].values[NthOf(at, i)].n]

\* The k-th smallest number of a series (k from 1).
OrderStat(series, k) ==
  CHOOSE v \in {series[i] : i \in 1..Len(series)} :
    /\ Cardinality({i \in 1..Len(series) : series[i] < v}) < k
    /\ k <= Cardinality({i \in 1..Len(series) : series[i] <= v})

\* Four times the j/4 quantile by linear interpolation between the order
\* statistics around position (n-1)*j/4.
Quartile4(series, j) ==
  LET h4 == (Len(series) - 1) * j
      t == h4 % 4
      a == OrderStat(series, (h4 \div 4) + 1)
      b == IF t = 0 THEN a ELSE OrderStat(series, (h4 \div 4) + 2)
  IN  (4 - t) * a + t * b

\* v < Q1 - 1.5*(Q3-Q1) or v > Q3 + 1.5*(Q3-Q1), all times 8.
BeyondFence(series, v) ==
  LET q1 == Quartile4(series, 1)
      q3 == Quartile4(series, 3)
  IN  \/ 8 * v + 3 * (q3 - q1) < 2 * q1
      \/ 8 * v > 2 * q3 + 3 * (q3 - q1)

OnFence(series, v) ==
  LET q1 == Quartile4(series, 1)
      q3 == Quartile4(series, 3)
  IN  \/ 8 * v + 3 * (q3 - q1) = 2 * q1
      \/ 8 * v = 2 * q3 + 3 * (q3 - q1)

\* p is x = a/b rounded to two decimals: a multiple of 1/100 within 1/200 of x.
RoundedTo2(p, a, b) ==
  /\ p.den > 0
  /\ 100 % p.den = 0
  /\ 200 * Abs(p.num * b - a * p.den) <= b * p.den

\* C2: outlier_table() has one entry per numeric column with a non-missing
\* value, in column order; its outliers is the number of non-missing values
\* strictly below Q1 - 1.5*IQR or strictly above Q3 + 1.5*IQR, the quartiles
\* being linear-interpolation quantiles, and its pct is outliers / non-missing
\* * 100 rounded to 2 decimals; [1,2,3,4,5,6,7,8,9,100] gives 1 and 10.0.
C2_OutlierReport ==
  CallOk(resp, "outlier_table") =>
    LET df == TableAt(fs, resp.path)
        numeric == {c \in 1..Len(df.cols) :
                      /\ df.cols[c].dtype \in {"int64", "float64"}
                      /\ \E r \in 1..df.nrows : df.cols[c].values[r] # NaN}
        entries == resp.body.outliers
    IN  /\ Len(entries) = Cardinality(numeric)
        /\ \A i \in 1..Len(entries) :
             LET c == NthOf(numeric, i)
                 series == Present(df, c)
                 out == {j \in 1..Len(series) : BeyondFence(series, series[j])}
             IN  /\ entries[i].column = df.cols[c].name
                 /\ entries[i].outliers = Cardinality(out)
                 /\ RoundedTo2(entries[i].pct,
                               Cardinality(out) * 100, Len(series))
        /\ fs[resp.path] = TenToHundred =>
             entries = <<[column |-> "x", outliers |-> 1,
                          pct |-> [num |-> 10, den |-> 1]]>>

\* The report on the column [1,2,3,4,5,6,7,8,9,100].
C2_Witness ==
  /\ CallOk(resp, "outlier_table")
  /\ fs[resp.path] = TenToHundred
  /\ resp.body.outliers[1].outliers = 1
  /\ resp.body.outliers[1].pct = [num |-> 10, den |-> 1]

\* A column with a value exactly on a fence beside an outlier.
C2_FenceCase ==
  /\ CallOk(resp, "outlier_table")
  /\ Len(resp.body.outliers) >= 1
  /\ resp.body.outliers[1].outliers >= 1
  /\ LET df == TableAt(fs, resp.path)
         series == Present(df, 1)
     IN  /\ Len(series) = df.nrows
         /\ \E j \in 1..Len(series) : OnFence(series, series[j])

\* A summary() report and a missing() report agree with each other.
Consistent(s, m) ==
  /\ Len(m) = s.columns
  /\ s.missing_total = SumSeq([c \in 1..Len(m) |-> m[c].missing])
  /\ \A c \in 1..Len(m) :
       m[c].missing_pct =
         IF s.rows = 0 THEN Frac(0, 1) ELSE Frac(m[c].missing * 100, s.rows)

\* C3: when summary() and missing() are called one after the other on a file
\* that is not written in between, missing_total is the sum of the per-column
\* missing counts, and the percentages of missing() have summary().rows as
\* their denominator.
C3_SummaryMissingAgree ==
  [][ /\ (CallOk(resp, "summary") /\ CallOk(resp', "missing") /\ fs' = fs)
           => Consistent(resp.body, resp'.body.missing_by_column)
      /\ (CallOk(resp, "missing") /\ CallOk(resp', "summary") /\ fs' = fs)
           => Consistent(resp'.body, resp.body.missing_by_column) ]_vars

\* A missing() report with missing cells in two columns, unevenly.
C3_Witness ==
  /\ CallOk(resp, "missing")
  /\ Len(resp.body.missing_by_column) >= 2
  /\ resp.body.missing_by_column[1].missing >= 2
  /\ resp.body.missing_by_column[2].missing = 1

\* C4: summary().duplicate_rows is the number of rows identical in all columns
\* to an earlier row; so duplicates().count exceeds it by the number of
\* distinct rows that occur more than once.
C4_DuplicateRows ==
  [][ /\ CallOk(resp', "summary") =>
           LET df == TableAt(fs', resp'.path)
           IN  resp'.body.duplicate_rows =
                 Cardinality({r \in 1..df.nrows :
                                \E q \in 1..(r - 1) : SameRow(df, q, r)})
      /\ (CallOk(resp, "summary") /\ CallOk(resp', "duplicates") /\ fs' = fs)
           => LET df == TableAt(fs, resp.path)
              IN  resp'.body.count - resp.body.duplicate_rows =
                    Cardinality({Row(df, r) : r \in Repeated(df)}) ]_vars

\* A summary() of a table with two different repeated rows, one of them
\* occurring three times (rows B, A, A, A, C, C).
C4_Witness ==
  /\ CallOk(resp, "summary")
  /\ resp.body.duplicate_rows = 3
  /\ LET df == TableAt(fs, resp.path)
     IN  Cardinality({Row(df, r) : r \in Repeated(df)}) = 2

\* The file at `path` exists and is delimited text.
Loadable(store, path) == path \in DOMAIN store /\ store[path].kind = "csv"

\* C5: each of the seven operations, called on a file that is missing or is
\* not readable as CSV, signals the load error and returns nothing; called on
\* a file that loads, it returns a report: so no operation succeeds on a file
\* on which another fails.
C5_LoadFailure ==
  resp.kind = "call" =>
    /\ resp.op \in {"summary", "missing", "dtypes", "nunique",
                    "outlier_table", "duplicates", "columns"}
    /\ IF Loadable(fs, resp.path)
         THEN resp.status = "ok"
         ELSE resp.status = "LoadError" /\ resp.body = NoBody

\* columns() called on bytes that are no CSV.
C5_Witness ==
  /\ resp.kind = "call"
  /\ resp.op = "columns"
  /\ resp.path \in DOMAIN fs
  /\ fs[resp.path] = Garbage
  /\ resp.status = "LoadError"

\* C7: summary() gives missing_pct = 0 on a table with no rows or no columns
\* and missing_total / (rows * columns) * 100 otherwise; missing() gives every
\* column missing_pct = 0 on a table with no rows and missing / rows * 100
\* otherwise; neither raises on a file that loads.
C7_MissingPct ==
  /\ (resp.kind = "call" /\ resp.op \in {"summary", "missing"}
        /\ Loadable(fs, resp.path)) => resp.status = "ok"
  /\ CallOk(resp, "summary") =>
       resp.body.missing_pct =
         IF resp.body.rows = 0 \/ resp.body.columns = 0 THEN Frac(0, 1)
         ELSE Frac(resp.body.missing_total * 100,
                   resp.body.rows * resp.body.columns)
  /\ CallOk(resp, "missing") =>
       LET rows == TableAt(fs, resp.path).nrows
           by_column == resp.body.missing_by_column
       IN  \A c \in 1..Len(by_column) :
             by_column[c].missing_pct =
               IF rows = 0 THEN Frac(0, 1)
               ELSE Frac(by_column[c].missing * 100, rows)

\* summary() of a file that holds a header and no rows.
C7_Witness ==
  /\ CallOk(resp, "summary")
  /\ resp.body.rows = 0
  /\ resp.body.columns = 2
  /\ resp.body.missing_pct = [num |-> 0, den |-> 1]

\* C8: nunique() has one entry per column, in column order, whose unique is
\* the number of distinct non-missing values plus one if the column has a
\* missing cell; [1, null, null, 2] gives 3.
C8_Nunique ==
  CallOk(resp, "nunique") =>
    LET df == TableAt(fs, resp.path)
        counts == resp.body.nunique
    IN  /\ Len(counts) = Len(df.cols)
        /\ \A c \in 1..Len(df.cols) :
             LET cells == {df.cols[c].values[r] : r \in 1..df.nrows}
                 present == {v \in cells : v.k # "nan"}
             IN  /\ counts[c].column = fs[resp.path].header[c]
                 /\ counts[c].unique =
                      Cardinality(present)
                        + (IF cells # present THEN 1 ELSE 0)
        /\ fs[resp.path] = OneNullNullTwo => counts[1].unique = 3

\* The report on the column [1, null, null, 2].
C8_Witness ==
  /\ CallOk(resp, "nunique")
  /\ fs[resp.path] = OneNullNullTwo
  /\ resp.body = [nunique |-> <<[column |-> "x", unique |-> 3]>>]

(* ===================== properties of the service ======================== *)

\* The response `r` is that of a profiling view that resolved its dataset.
ViewFound(r) == r.kind = "view" /\ r.status # "Http404"

\* What the engine answers for `op` on `path`.
EngineReport(op, path) ==
  CASE op = "summary" -> summary(path)
    [] op = "missing" -> missing(path)
    [] op = "dtypes" -> dtypes(path)
    [] op = "nunique" -> nunique(path)
    [] op = "outlier_table" -> outlier_table(path)
    [] op = "duplicates" -> duplicates(path, DefaultSampleSize)
    [] op = "columns" -> columns(path)

\* What the engine answers now for the request of the last response.
EngineAnswer == EngineReport(resp.op, resp.path)

ColumnsOf(entries) == [i \in 1..Len(entries) |-> entries[i].column]

\* The response `r` shows the content the file r.path has in `store`.
Reflects(r, store) ==
  LET content == store[r.path]
  IN  /\ r.status = "LoadError" <=> content.kind # "csv"
      /\ r.status = "ok" =>
           CASE r.op = "summary" ->
                  /\ r.body.rows = Len(DataLines(content))
                  /\ r.body.columns = Len(content.header)
             [] r.op = "missing" ->
                  ColumnsOf(r.body.missing_by_column) = content.header
             [] r.op = "dtypes" -> ColumnsOf(r.body.dtypes) = content.header
             [] r.op = "nunique" -> ColumnsOf(r.body.nunique) = content.header
             [] r.op = "outlier_table" ->
                  \A i \in 1..Len(r.body.outliers) :
                    \E c \in 1..Len(content.header) :
                      r.body.outliers[i].column = content.header[c]
             [] r.op = "duplicates" -> r.body.count <= Len(DataLines(content))
             [] r.op = "columns" -> r.body.columns = content.header

\* C6: a profiling report is a function of the content the file has when the
\* request is made: two requests for the same operation with no write in
\* between, on files of equal content, get the same answer; and every answer
\* shows the content the file has at that moment, also after the file was
\* replaced.
C6_FreshReports ==
  /\ [](ViewFound(resp) =>
          /\ Reflects(resp, fs)
          /\ resp.status = EngineAnswer.status
          /\ resp.body = EngineAnswer.body)
  /\ [][ (/\ ViewFound(resp) /\ ViewFound(resp')
          /\ resp'.op = resp.op
          /\ fs' = fs
          /\ fs[resp'.path] = fs[resp.path])
           => (resp'.status = resp.status /\ resp'.body = resp.body) ]_vars

\* A summary of a file after it was replaced (SampleC comes from no upload).
C6_Witness ==
  /\ ViewFound(resp)
  /\ resp.op = "summary"
  /\ resp.status = "ok"
  /\ fs[resp.path] = SampleC
  /\ resp.body.rows = 1

\* C9: a profiling request for identifier d is answered from the stored file
\* that the dataset listing gives the identifier d, and is answered not-found
\* when the listing gives no file that identifier.
C9_ExactResolution ==
  resp.kind = "view" =>
    LET listed == {n \in DOMAIN fs : partition_dot(n) = resp.req}
    IN  IF listed = {} THEN resp.status = "Http404"
        ELSE resp.status # "Http404" /\ resp.path \in listed

\* The store keeps every file it had, name and bytes.
KeepsFiles == \A n \in DOMAIN fs : n \in DOMAIN fs' /\ fs'[n] = fs[n]

\* `new` is `id` followed by the extension of the uploaded name, or by .csv.
NamedAfter(new, id, name) ==
  \/ \E k \in 1..Len(name) :
       /\ name[k] = "."
       /\ \A j \in (k + 1)..Len(name) : name[j] # "."
       /\ new = id \o SubSeq(name, k, Len(name))
  \/ /\ \A k \in 1..Len(name) : name[k] # "."
     /\ new = id \o DotCsv

\* C10: a successful upload adds exactly one file, named by a fresh id and
\* the extension, holding the uploaded bytes, and keeps every other file; the
\* id it returns resolves to that file whatever the listing order; an upload
\* without a file is answered 400 and changes nothing; no listing or profiling
\* request changes the store; and the id of every stored file keeps resolving
\* to that file alone.
C10_UploadFrame ==
  /\ [](\A n \in DOMAIN fs :
          _get_dataset_path(partition_dot(n), DOMAIN fs)
            = {[found |-> TRUE, path |-> n]})
  /\ [][ /\ (resp'.kind = "upload" /\ resp'.status = "201") =>
              LET added == DOMAIN fs' \ DOMAIN fs
                  id == resp'.body.id
              IN  /\ resp'.req.has_file
                  /\ Cardinality(added) = 1
                  /\ KeepsFiles
                  /\ \A n \in DOMAIN fs : ~startswith(n, id)
                  /\ \A new \in added :
                       /\ NamedAfter(new, id, resp'.req.name)
                       /\ fs'[new] = resp'.req.content
                       /\ _get_dataset_path(id, DOMAIN fs')
                            = {[found |-> TRUE, path |-> new]}
         /\ (resp'.kind = "upload" /\ resp'.status = "400") =>
              (~resp'.req.has_file /\ fs' = fs)
         /\ resp'.kind = "upload" => resp'.status \in {"201", "400"}
         /\ resp'.kind \in {"view", "list"} => fs' = fs ]_vars

\* An upload stored beside a file whose id starts with the same character.
C10_Witness ==
  /\ resp.kind = "upload"
  /\ resp.status = "201"
  /\ \E new \in DOMAIN fs :
       new = resp.body.id \o <<".", "t">> /\ fs[new] = resp.req.content
  /\ \E n \in DOMAIN fs :
       ~startswith(n, resp.body.id) /\ n[1] = resp.body.id[1]

====
